---- MODULE Spec2Model ----
(***************************************************************************)
(* State-machine model of streamlit_app.py (AI Convolution Dashboard):     *)
(* the data layer (load_results, parse_timestamp), the plot rendering      *)
(* layer (TRACE_BUILDERS, plotly_from_metadata, detect_chart_type), the    *)
(* sidebar (render_sidebar) and the render pass of main().                 *)
(*                                                                         *)
(* Python strings are sequences of one-character strings, so that lower(), *)
(* capitalize() and the substring test `in` are computed.  A JSON value is *)
(* a record whose `kind` says what the document holds under a key          *)
(* ("absent" when the key is missing).                                     *)
(***************************************************************************)
EXTENDS Integers, Sequences, FiniteSets, TLC

VARIABLES
    file,              \* plots.json on disk: [exists, text]
    cache,             \* st.cache_data memo of load_results: [hit, value]
    pc,                \* position of the script run inside main()
    results,           \* main(): results
    search_term,       \* the sidebar text_input widget's value
    filtered_indices,  \* render_sidebar: filtered_indices
    selected_index,    \* render_sidebar: selected_index
    selected_result,   \* main(): selected_result ({} is EmptyEntry)
    rendered,          \* the widgets written to the page in this pass
    download,          \* the data handed to st.download_button
    reloaded,          \* load_results applied to the exported JSON
    plot_spec,         \* the PlotSpec given to the chart functions
    fig,               \* what plotly_from_metadata returned or raised
    chart_type,        \* what detect_chart_type returned or raised
    calls              \* the functions applied so far (pure-function runs)

vars == <<file, cache, pc, results, search_term, filtered_indices,
          selected_index, selected_result, rendered, download, reloaded,
          plot_spec, fig, chart_type, calls>>

\* ------------------------------------------------------------------ bounds
MaxEntries == 3
MaxFileEntries == 2
MaxWrittenEntries == 2
MaxTraces == 2

\* ----------------------------------------------------------------- strings
LowerLetters ==
    <<"a","b","c","d","e","f","g","h","i","j","k","l","m",
      "n","o","p","q","r","s","t","u","v","w","x","y","z">>

UpperLetters ==
    <<"A","B","C","D","E","F","G","H","I","J","K","L","M",
      "N","O","P","Q","R","S","T","U","V","W","X","Y","Z">>

LetterIndex(table, c) == CHOOSE i \in DOMAIN table : table[i] = c

IsIn(table, c) == \E i \in DOMAIN table : table[i] = c

\* one character of str.lower()
LowerChar(c) ==
    IF IsIn(UpperLetters, c) THEN LowerLetters[LetterIndex(UpperLetters, c)] ELSE c

\* one character of str.upper()
UpperChar(c) ==
    IF IsIn(LowerLetters, c) THEN UpperLetters[LetterIndex(LowerLetters, c)] ELSE c

\* str.lower()
lower(s) == [i \in DOMAIN s |-> LowerChar(s[i])]

\* str.capitalize(): first character upper-cased, the rest lower-cased
capitalize(s) ==
    [i \in DOMAIN s |-> IF i = 1 THEN UpperChar(s[i]) ELSE LowerChar(s[i])]

\* Python's `sub in s` on strings
str_contains(sub, s) ==
    \E k \in 0..(Len(s) - Len(sub)) : SubSeq(s, k + 1, k + Len(sub)) = sub

\* ------------------------------------------------------------- JSON values
\* the value under a string-valued key such as "query" or "type"
Absent == [kind |-> "absent", s |-> <<>>]
Null == [kind |-> "null", s |-> <<>>]
Number == [kind |-> "num", s |-> <<>>]
ListValue == [kind |-> "list", s |-> <<>>]
Str(s) == [kind |-> "str", s |-> s]

S_bar == <<"b","a","r">>
S_line == <<"l","i","n","e">>
S_scatter == <<"s","c","a","t","t","e","r">>
S_pie == <<"p","i","e">>
S_BAR == <<"B","A","R">>
S_heat == <<"h","e","a","t">>
S_Unknown == <<"U","n","k","n","o","w","n">>
S_UnnamedQuery == <<"U","n","n","a","m","e","d"," ","Q","u","e","r","y">>

\* ----------------------------------------------------- plot rendering layer
\* A TraceSpec: its "type" and whether plotly's validators accept the values
\* of the fields its builder passes on (x, y, marker, labels, values, ...).
TraceSpec(t, ok) == [type |-> t, fields_ok |-> ok]

\* The "data" of a PlotSpec: absent, null, or a list of traces.
DataAbsent == [kind |-> "absent", items |-> <<>>]
DataNull == [kind |-> "null", items |-> <<>>]
DataList(ts) == [kind |-> "list", items |-> ts]

\* A PlotSpec: the value under "plot".  layout_ok: plotly accepts "layout".
PlotAbsent == [kind |-> "absent", data |-> DataAbsent, layout_ok |-> TRUE]
PlotNull == [kind |-> "null", data |-> DataAbsent, layout_ok |-> TRUE]
PlotDict(d, ok) == [kind |-> "dict", data |-> d, layout_ok |-> ok]

\* go.Figure(): no traces; an exception leaves no figure behind
EmptyFigure == [raised |-> FALSE, traces |-> <<>>, layout |-> "none"]
Raised == [raised |-> TRUE, traces |-> <<>>, layout |-> "none"]

add_trace(f, kind, trace) ==
    IF trace.fields_ok
    THEN [f EXCEPT !.traces = Append(@, [kind |-> kind, trace |-> trace])]
    ELSE Raised

build_bar(f, trace) == add_trace(f, "bar", trace)

build_line(f, trace) == add_trace(f, "scatter", trace)

build_pie(f, trace) == add_trace(f, "pie", trace)

TRACE_BUILDERS ==
    [k \in {S_bar, S_line, S_scatter, S_pie} |->
        CASE k = S_bar -> "build_bar"
          [] k = S_line -> "build_line"
          [] k = S_scatter -> "build_line"
          [] k = S_pie -> "build_pie"]

\* dict.get(key): an unhashable key (a JSON array or object) raises TypeError
Unhashable(t) == t.kind = "list"

\* TRACE_BUILDERS.get(trace_type) for a hashable trace_type; "" stands for None
builder_for(t) ==
    IF t.kind = "str" /\ t.s \in DOMAIN TRACE_BUILDERS
    THEN TRACE_BUILDERS[t.s] ELSE ""

call_builder(name, f, trace) ==
    CASE name = "build_bar" -> build_bar(f, trace)
      [] name = "build_line" -> build_line(f, trace)
      [] name = "build_pie" -> build_pie(f, trace)

\* one iteration of the loop of plotly_from_metadata
add_one(f, trace) ==
    IF Unhashable(trace.type) THEN Raised
    ELSE IF builder_for(trace.type) = "" THEN f
         ELSE call_builder(builder_for(trace.type), f, trace)

RECURSIVE add_traces(_, _, _)
add_traces(f, items, i) ==
    IF i > Len(items) \/ f.raised THEN f
    ELSE add_traces(add_one(f, items[i]), items, i + 1)

update_layout(f, ok) ==
    IF f.raised THEN f
    ELSE IF ok THEN [f EXCEPT !.layout = "merged"] ELSE Raised

plotly_from_metadata(spec) ==
    IF spec.kind # "dict" THEN Raised
    ELSE IF spec.data.kind = "null" THEN Raised
    ELSE update_layout(add_traces(EmptyFigure, spec.data.items, 1), spec.layout_ok)

\* the value a call returns, or the exception it raises
Returns(s) == [raised |-> FALSE, label |-> s]
Raises == [raised |-> TRUE, label |-> <<>>]

detect_chart_type(spec) ==
    IF spec.kind # "dict" THEN Raises
    ELSE IF spec.data.kind # "list" \/ spec.data.items = <<>> THEN Returns(S_Unknown)
    ELSE LET t == spec.data.items[1].type IN
         CASE t.kind = "absent" -> Returns(capitalize(S_Unknown))
           [] t.kind = "str" -> Returns(capitalize(t.s))
           [] OTHER -> Raises

\* --------------------------------------------------------------- data layer
\* The value under "timestamp".  An ISO-8601 string is the day it names
\* (day 1 is 0001-01-01, midnight) and its UTC offset in hours; "naive" has
\* no offset, "junk" is a string fromisoformat rejects, "empty" is "".
TsAbsent == [kind |-> "absent", day |-> 0, off |-> 0]
TsNull == [kind |-> "null", day |-> 0, off |-> 0]
TsEmpty == [kind |-> "empty", day |-> 0, off |-> 0]
TsJunk == [kind |-> "junk", day |-> 0, off |-> 0]
TsNaive(d) == [kind |-> "naive", day |-> d, off |-> 0]
TsAware(d, o) == [kind |-> "aware", day |-> d, off |-> o]

\* a ResultEntry: a JSON object with the keys "query", "timestamp", "plot"
Entry(q, t, p) == [query |-> q, timestamp |-> t, plot |-> p]

\* the dict {}
EmptyEntry == Entry(Absent, TsAbsent, PlotAbsent)

\* datetime.min.replace(tzinfo=timezone.utc), in hours since itself
DatetimeMin == 0

\* datetime.fromisoformat(ts) made aware: hours since DatetimeMin, in UTC
fromisoformat(ts) ==
    IF ts.kind = "naive" THEN (ts.day - 1) * 24
    ELSE (ts.day - 1) * 24 - ts.off

parse_timestamp(entry) ==
    LET ts == entry.timestamp IN
    IF ts.kind \in {"absent", "null", "empty"} THEN DatetimeMin
    ELSE IF ts.kind \in {"naive", "aware"} THEN fromisoformat(ts)
    ELSE DatetimeMin

\* list.reverse()
Reverse(xs) == [i \in 1..Len(xs) |-> xs[Len(xs) + 1 - i]]

\* insertion of x behind every element whose key is not greater (stable)
insert_stable(acc, x) ==
    LET p == Cardinality({i \in 1..Len(acc) :
                            parse_timestamp(acc[i]) <= parse_timestamp(x)})
    IN SubSeq(acc, 1, p) \o <<x>> \o SubSeq(acc, p + 1, Len(acc))

RECURSIVE sort_ascending(_, _, _)
sort_ascending(xs, i, acc) ==
    IF i > Len(xs) THEN acc
    ELSE sort_ascending(xs, i + 1, insert_stable(acc, xs[i]))

\* a sort in ascending order followed by a reversal: ties come out reversed
sorted_then_reversed(xs) == Reverse(sort_ascending(xs, 1, <<>>))

\* sorted(results, key=parse_timestamp, reverse=True): list.sort reverses the
\* list, sorts it stably in ascending order and reverses it again
sorted_reverse(xs) == Reverse(sort_ascending(Reverse(xs), 1, <<>>))

\* JSON text: a sequence of tokens
NoValue == [kind |-> "none"]
Tok(t) == [tok |-> t, key |-> "", val |-> NoValue]
KeyTok(k) == [tok |-> "key", key |-> k, val |-> NoValue]
ValTok(v) == [tok |-> "value", key |-> "", val |-> v]

EntryKeys == <<"query", "timestamp", "plot">>

RECURSIVE dump_members(_, _, _)
dump_members(e, i, acc) ==
    IF i > Len(EntryKeys) THEN acc
    ELSE LET k == EntryKeys[i] IN
         IF e[k].kind = "absent" THEN dump_members(e, i + 1, acc)
         ELSE dump_members(e, i + 1,
                  acc \o (IF acc = <<>> THEN <<>> ELSE <<Tok("comma")>>)
                      \o <<KeyTok(k), Tok("colon"), ValTok(e[k])>>)

dump_object(e) == <<Tok("lbrace")>> \o dump_members(e, 1, <<>>) \o <<Tok("rbrace")>>

RECURSIVE dump_items(_, _, _)
dump_items(xs, i, acc) ==
    IF i > Len(xs) THEN acc
    ELSE dump_items(xs, i + 1,
             acc \o (IF i = 1 THEN <<>> ELSE <<Tok("comma")>>) \o dump_object(xs[i]))

\* json.dumps(results, indent=2) of a list of dicts
json_dumps(xs) == <<Tok("lbrack")>> \o dump_items(xs, 1, <<>>) \o <<Tok("rbrack")>>

RECURSIVE parse_members(_, _, _)
parse_members(text, i, acc) ==
    LET t == text[i] IN
    IF t.tok = "rbrace" THEN [entry |-> acc, next |-> i + 1]
    ELSE IF t.tok = "comma" THEN parse_members(text, i + 1, acc)
    ELSE parse_members(text, i + 3, [acc EXCEPT ![t.key] = text[i + 2].val])

RECURSIVE parse_items(_, _, _)
parse_items(text, i, acc) ==
    LET t == text[i] IN
    IF t.tok = "rbrack" THEN acc
    ELSE IF t.tok = "comma" THEN parse_items(text, i + 1, acc)
    ELSE LET r == parse_members(text, i + 1, EmptyEntry) IN
         parse_items(text, r.next, Append(acc, r.entry))

\* json.load(f) of a well-formed document: a list of objects, or one object
json_load(text) ==
    IF text[1].tok = "lbrack"
    THEN [top |-> "list", obj |-> EmptyEntry, items |-> parse_items(text, 2, <<>>)]
    ELSE [top |-> "dict", obj |-> parse_members(text, 2, EmptyEntry).entry,
          items |-> <<>>]

\* r.get("plot"): an empty plot object counts as missing
has_plot_truthy(r) == r.plot.kind # "absent" /\ r.plot # PlotDict(DataAbsent, TRUE)

\* "plot" in r
has_plot(r) == r.plot.kind # "absent"

\* if isinstance(raw_data, dict): raw_data = [raw_data]
wrap_dict(raw) == IF raw.top = "dict" THEN <<raw.obj>> ELSE raw.items

\* Path.exists() and the file's content
NoFile == [exists |-> FALSE, text |-> <<>>]
FileOf(text) == [exists |-> TRUE, text |-> text]

\* the body of load_results (without the st.cache_data memo)
load_results(path) ==
    IF ~path.exists THEN <<>>
    ELSE sorted_reverse(SelectSeq(wrap_dict(json_load(path.text)), has_plot))

\* ------------------------------------------------------- st.cache_data memo
\* @st.cache_data keys the memo on the function and the hash of its argument:
\* the Path object (its parts), not the content of the file it names.  main()
\* always passes PLOT_FILE, so the memo has one slot.
NoCache == [hit |-> FALSE, value |-> <<>>]

cache_data(c, path) == IF c.hit THEN c.value ELSE load_results(path)

\* ------------------------------------------------------------ sidebar layer
W(name, entry) == [widget |-> name, entry |-> entry]

Shown(name) == \E i \in DOMAIN rendered : rendered[i].widget = name

\* queries = [r.get("query", "Unnamed Query") for r in results]
queries_of(rs) ==
    [i \in 1..Len(rs) |->
        IF rs[i].query.kind = "absent" THEN S_UnnamedQuery ELSE rs[i].query.s]

\* the search term compared as typed, not lower-cased
RECURSIVE enumerate_matching_as_typed(_, _, _, _)
enumerate_matching_as_typed(queries, term, i, acc) ==
    IF i > Len(queries) THEN acc
    ELSE enumerate_matching_as_typed(queries, term, i + 1,
             IF str_contains(term, lower(queries[i]))
             THEN Append(acc, i - 1) ELSE acc)

RECURSIVE enumerate_matching(_, _, _, _)
enumerate_matching(queries, term, i, acc) ==
    IF i > Len(queries) THEN acc
    ELSE enumerate_matching(queries, term, i + 1,
             IF str_contains(lower(term), lower(queries[i]))
             THEN Append(acc, i - 1) ELSE acc)

\* filtered_indices of render_sidebar (Python's 0-based indices)
filter_indices(queries, term) ==
    IF term # <<>> THEN enumerate_matching(queries, term, 1, <<>>)
    ELSE [i \in 1..Len(queries) |-> i - 1]

\* ----------------------------------------------------------- main rendering
\* result.get("plot", {})
plot_or_empty(result) ==
    IF result.plot.kind = "absent" THEN PlotDict(DataAbsent, TRUE) ELSE result.plot

\* len(result.get("plot", {}).get("data", [])) raises on None
trace_count_raises(result) ==
    LET p == plot_or_empty(result) IN p.kind # "dict" \/ p.data.kind = "null"

\* render_header raises: detect_chart_type or the trace count does
header_raises(result) ==
    detect_chart_type(plot_or_empty(result)).raised \/ trace_count_raises(result)

\* ------------------------------------------------------------------ actions
\* A user interaction reruns the script.  A widget that the previous run did
\* not render has lost its state, so the search box is then empty.
Rerun(term) ==
    /\ pc \in {"done", "crashed"}
    /\ term # <<>> => Shown("text_input")
    /\ search_term' = term
    /\ pc' = "main"
    /\ rendered' = <<>>
    /\ filtered_indices' = <<>>
    /\ selected_index' = -1
    /\ selected_result' = EmptyEntry
    /\ download' = <<>>
    /\ fig' = EmptyFigure
    /\ chart_type' = Returns(<<>>)
    /\ UNCHANGED <<file, cache, results, reloaded, plot_spec, calls>>

\* main(): results = load_results(PLOT_FILE); if not results: warning, return
MainLoad ==
    /\ pc = "main"
    /\ LET value == cache_data(cache, file) IN
        /\ results' = value
        /\ cache' = [hit |-> TRUE, value |-> value]
        /\ IF value = <<>>
           THEN /\ rendered' = Append(rendered, W("warning_no_metadata", EmptyEntry))
                /\ pc' = "done"
           ELSE /\ rendered' = rendered
                /\ pc' = "sidebar"
    /\ UNCHANGED <<file, search_term, filtered_indices, selected_index,
                   selected_result, download, reloaded, plot_spec, fig,
                   chart_type, calls>>

\* render_sidebar returning {} for no match, and main() returning on it
RenderSidebarNoMatch ==
    /\ pc = "sidebar"
    /\ filter_indices(queries_of(results), search_term) = <<>>
    /\ filtered_indices' = <<>>
    /\ selected_result' = EmptyEntry
    /\ rendered' = rendered \o <<W("text_input", EmptyEntry),
                                 W("warning_no_matches", EmptyEntry)>>
    /\ pc' = "done"
    /\ UNCHANGED <<file, cache, results, search_term, selected_index, download,
                   reloaded, plot_spec, fig, chart_type, calls>>

\* the position of the chosen option instead of the option
selectbox_position(options) == {k - 1 : k \in DOMAIN options}

\* st.sidebar.selectbox returns one of its options
selectbox(options) == {options[k] : k \in DOMAIN options}

\* render_sidebar returning results[selected_index]
RenderSidebarSelect ==
    /\ pc = "sidebar"
    /\ LET filtered == filter_indices(queries_of(results), search_term) IN
        /\ filtered # <<>>
        /\ filtered_indices' = filtered
        /\ \E i \in selectbox(filtered) :
            /\ selected_index' = i
            /\ selected_result' = results[i + 1]
    /\ rendered' = rendered \o <<W("text_input", EmptyEntry),
                                 W("selectbox", EmptyEntry),
                                 W("sidebar_metrics", EmptyEntry)>>
    /\ pc' = "header"
    /\ UNCHANGED <<file, cache, results, search_term, download, reloaded,
                   plot_spec, fig, chart_type, calls>>

\* render_header(selected_result)
RenderHeader ==
    /\ pc = "header"
    /\ ~header_raises(selected_result)
    /\ chart_type' = detect_chart_type(plot_or_empty(selected_result))
    /\ rendered' = rendered \o <<W("subheader", selected_result),
                                 W("header_metrics", selected_result)>>
    /\ pc' = "tabs"
    /\ UNCHANGED <<file, cache, results, search_term, filtered_indices,
                   selected_index, selected_result, download, reloaded,
                   plot_spec, fig, calls>>

\* render_header raising after st.subheader: nothing catches it, the run ends
RenderHeaderRaises ==
    /\ pc = "header"
    /\ header_raises(selected_result)
    /\ rendered' = rendered \o <<W("subheader", selected_result),
                                 W("exception", selected_result)>>
    /\ pc' = "crashed"
    /\ UNCHANGED <<file, cache, results, search_term, filtered_indices,
                   selected_index, selected_result, download, reloaded,
                   plot_spec, fig, chart_type, calls>>

\* render_visualization: the try/except around plotly_from_metadata
render_visualization(result) ==
    IF plotly_from_metadata(result.plot).raised
    THEN <<W("error", result), W("code", result)>>
    ELSE <<W("plotly_chart", result)>>

\* render_tabs(selected_result): visualization, metadata, JSON
RenderTabs ==
    /\ pc = "tabs"
    /\ fig' = plotly_from_metadata(selected_result.plot)
    /\ IF detect_chart_type(plot_or_empty(selected_result)).raised
       THEN /\ rendered' = rendered \o render_visualization(selected_result)
                               \o <<W("exception", selected_result)>>
            /\ pc' = "crashed"
       ELSE /\ rendered' = rendered \o render_visualization(selected_result)
                               \o <<W("metadata", selected_result),
                                    W("json", selected_result)>>
            /\ pc' = "download"
    /\ UNCHANGED <<file, cache, results, search_term, filtered_indices,
                   selected_index, selected_result, download, reloaded,
                   plot_spec, chart_type, calls>>

\* the entries the sidebar filter kept
download_filtered ==
    [k \in DOMAIN filtered_indices |-> results[filtered_indices[k] + 1]]

\* what main() hands to render_download
download_argument == results

\* render_download(results) and the closing caption
RenderDownload ==
    /\ pc = "download"
    /\ download' = json_dumps(download_argument)
    /\ rendered' = rendered \o <<W("download_button", EmptyEntry),
                                 W("caption", EmptyEntry)>>
    /\ pc' = "done"
    /\ UNCHANGED <<file, cache, results, search_term, filtered_indices,
                   selected_index, selected_result, reloaded, plot_spec, fig,
                   chart_type, calls>>

\* the external generator writes plots.json
WriteFile(text) ==
    /\ file # FileOf(text)
    /\ file' = FileOf(text)
    /\ UNCHANGED <<cache, pc, results, search_term, filtered_indices,
                   selected_index, selected_result, rendered, download,
                   reloaded, plot_spec, fig, chart_type, calls>>

\* plots.json is removed
DeleteFile ==
    /\ file.exists
    /\ file' = NoFile
    /\ UNCHANGED <<cache, pc, results, search_term, filtered_indices,
                   selected_index, selected_result, rendered, download,
                   reloaded, plot_spec, fig, chart_type, calls>>

\* ------------------------------------------------------------------ inputs
SeqsUpTo(S, n) == UNION {[1..k -> S] : k \in 0..n}

\* the values a trace's "type" takes: missing, null, a number, an array,
\* the four supported tags, a tag in capitals and an unsupported tag
TypeValues ==
    {Absent, Null, Number, ListValue, Str(S_bar), Str(S_line), Str(S_scatter),
     Str(S_pie), Str(S_BAR), Str(S_heat)}

TraceSpecs == {TraceSpec(t, ok) : t \in TypeValues, ok \in BOOLEAN}

PlotSpecs ==
    {PlotDict(DataList(ts), ok) : ts \in SeqsUpTo(TraceSpecs, MaxTraces), ok \in BOOLEAN}
    \cup {PlotDict(DataAbsent, ok) : ok \in BOOLEAN}
    \cup {PlotDict(DataNull, ok) : ok \in BOOLEAN}

\* timestamps of the loader's inputs: missing, null, "", not ISO-8601,
\* 0001-01-01T00:00:00, 0001-01-01T00:00:00+01:00, and day 2 with and
\* without an offset
LoadTimestamps ==
    {TsAbsent, TsNull, TsEmpty, TsJunk, TsNaive(1), TsAware(1, 1), TsNaive(2),
     TsAware(2, 0)}

\* "plot": {}
EmptyPlot == PlotDict(DataAbsent, TRUE)

LoadEntries == {Entry(Absent, t, p) : t \in LoadTimestamps, p \in {PlotAbsent, EmptyPlot}}

LoadFiles ==
    {NoFile}
    \cup {FileOf(json_dumps(es)) : es \in SeqsUpTo(LoadEntries, MaxEntries)}
    \cup {FileOf(dump_object(e)) : e \in LoadEntries}

\* plots of the render pass: a bar chart, a bar chart whose values plotly
\* rejects, "data": null, and a trace whose "type" is an array
BarOk == PlotDict(DataList(<<TraceSpec(Str(S_bar), TRUE)>>), TRUE)
BarBad == PlotDict(DataList(<<TraceSpec(Str(S_bar), FALSE)>>), TRUE)
NullData == PlotDict(DataNull, TRUE)
ListType == PlotDict(DataList(<<TraceSpec(ListValue, TRUE)>>), TRUE)

PassQueries == {Absent, Str(<<"A", "b">>), Str(<<"b">>)}

PassEntries ==
    {Entry(q, TsAbsent, p) : q \in PassQueries, p \in {BarOk, BarBad, NullData, ListType}}

PassFiles ==
    {NoFile}
    \cup {FileOf(json_dumps(es)) : es \in SeqsUpTo(PassEntries, MaxFileEntries)}

SearchTerms == {<<>>, <<"B">>, <<"a", "B">>, <<"u", "N">>, <<"z">>}

\* what the external generator writes while the dashboard runs
WrittenEntries ==
    {Entry(Str(<<"A", "b">>), TsAbsent, BarOk), Entry(Str(<<"b">>), TsNaive(2), NullData)}

WrittenTexts == {json_dumps(es) : es \in SeqsUpTo(WrittenEntries, MaxWrittenEntries)}

\* ------------------------------------------------- pure-function actions
AppStart ==
    /\ cache = NoCache
    /\ pc = "main"
    /\ results = <<>>
    /\ search_term = <<>>
    /\ filtered_indices = <<>>
    /\ selected_index = -1
    /\ selected_result = EmptyEntry
    /\ rendered = <<>>
    /\ download = <<>>
    /\ reloaded = <<>>
    /\ fig = EmptyFigure
    /\ chart_type = Returns(<<>>)
    /\ calls = {}

\* fig = plotly_from_metadata(plot_spec)
BuildChart ==
    /\ "plotly_from_metadata" \notin calls
    /\ fig' = plotly_from_metadata(plot_spec)
    /\ calls' = calls \cup {"plotly_from_metadata"}
    /\ UNCHANGED <<file, cache, pc, results, search_term, filtered_indices,
                   selected_index, selected_result, rendered, download,
                   reloaded, plot_spec, chart_type>>

\* chart_type = detect_chart_type(plot_spec)
DetectChart ==
    /\ "detect_chart_type" \notin calls
    /\ chart_type' = detect_chart_type(plot_spec)
    /\ calls' = calls \cup {"detect_chart_type"}
    /\ UNCHANGED <<file, cache, pc, results, search_term, filtered_indices,
                   selected_index, selected_result, rendered, download,
                   reloaded, plot_spec, fig>>

\* results = load_results(path), without the memo
LoadFile ==
    /\ "load_results" \notin calls
    /\ results' = load_results(file)
    /\ calls' = calls \cup {"load_results"}
    /\ UNCHANGED <<file, cache, pc, search_term, filtered_indices,
                   selected_index, selected_result, rendered, download,
                   reloaded, plot_spec, fig, chart_type>>

\* the export: json.dumps(results, indent=2)
Export ==
    /\ "load_results" \in calls
    /\ "json_dumps" \notin calls
    /\ download' = json_dumps(results)
    /\ calls' = calls \cup {"json_dumps"}
    /\ UNCHANGED <<file, cache, pc, results, search_term, filtered_indices,
                   selected_index, selected_result, rendered, reloaded,
                   plot_spec, fig, chart_type>>

\* load_results on a file holding the exported text
Reload ==
    /\ "json_dumps" \in calls
    /\ "reload" \notin calls
    /\ reloaded' = load_results(FileOf(download))
    /\ calls' = calls \cup {"reload"}
    /\ UNCHANGED <<file, cache, pc, results, search_term, filtered_indices,
                   selected_index, selected_result, rendered, download,
                   plot_spec, fig, chart_type>>

\* ---------------------------------------------------------- specifications
\* the dashboard next to the generator that writes plots.json
Init == file = NoFile /\ plot_spec = EmptyPlot /\ AppStart

PassStep ==
    \/ \E term \in SearchTerms : Rerun(term)
    \/ MainLoad
    \/ RenderSidebarNoMatch
    \/ RenderSidebarSelect
    \/ RenderHeader
    \/ RenderHeaderRaises
    \/ RenderTabs
    \/ RenderDownload

Next ==
    \/ PassStep
    \/ \E text \in WrittenTexts : WriteFile(text)
    \/ DeleteFile

Spec == Init /\ [][Next]_vars

\* render passes over a file that does not change
InitPass == file \in PassFiles /\ plot_spec = EmptyPlot /\ AppStart

SpecPass == InitPass /\ [][PassStep]_vars

\* load_results, the export and the re-load as functions of the input file
InitLoad == file \in LoadFiles /\ plot_spec = EmptyPlot /\ AppStart

NextLoad == LoadFile \/ Export \/ Reload

SpecLoad == InitLoad /\ [][NextLoad]_vars

\* the chart functions as functions of the PlotSpec
InitChart ==
    /\ file = NoFile
    /\ AppStart
    /\ plot_spec \in PlotSpecs

NextChart == BuildChart \/ DetectChart

SpecChart == InitChart /\ [][NextChart]_vars

\* ------------------------------------------------------------------ claims
Range(xs) == {xs[i] : i \in DOMAIN xs}

Count(xs, e) == Cardinality({i \in DOMAIN xs : xs[i] = e})

\* the objects of the input document, a single object counting as one
InputObjects ==
    IF ~file.exists THEN <<>>
    ELSE LET raw == json_load(file.text) IN
         IF raw.top = "dict" THEN <<raw.obj>> ELSE raw.items

PlotKeyPresent(e) == e.plot.kind # "absent"

ValidTimestamp(e) == e.timestamp.kind \in {"naive", "aware"}

WithKey(xs, k) ==
    LET Same(e) == parse_timestamp(e) = k IN SelectSeq(xs, Same)

\* C1: the list load_results returns is sorted by parse_timestamp descending,
\* every entry whose timestamp is missing, empty or unparsable comes after
\* every entry whose timestamp is a valid ISO-8601 value, and entries with
\* equal parsed timestamps keep their relative order from the input file.
C1_SortedWithFallbackLast ==
    "load_results" \in calls =>
        /\ \A i, j \in DOMAIN results :
              i < j => parse_timestamp(results[i]) >= parse_timestamp(results[j])
        /\ \A i, j \in DOMAIN results :
              ~ValidTimestamp(results[i]) /\ ValidTimestamp(results[j]) => j < i
        /\ \A e \in Range(results) :
              WithKey(results, parse_timestamp(e))
                  = WithKey(SelectSeq(InputObjects, PlotKeyPresent), parse_timestamp(e))

\* C2: of the N objects of the input, load_results returns exactly the M that
\* contain a "plot" key, each as often as the input holds it, and no others;
\* a top-level single object is treated as a one-element list.
C2_ExactlyThePlotEntries ==
    "load_results" \in calls =>
        /\ Len(results)
              = Cardinality({i \in DOMAIN InputObjects : PlotKeyPresent(InputObjects[i])})
        /\ \A e \in Range(InputObjects) \cup Range(results) :
              Count(results, e) = IF PlotKeyPresent(e) THEN Count(InputObjects, e) ELSE 0

C2_Witness ==
    /\ "load_results" \in calls
    /\ Len(InputObjects) = 3
    /\ Len(results) = 2
    /\ \E i \in DOMAIN results : results[i].plot = EmptyPlot

\* C3: every load returns the entries of the file content current at that
\* call: the step of main() that loads leaves in results what load_results
\* computes from the file as it is then, never a result of earlier content.
C3_LoadReturnsCurrentContent ==
    [][pc = "main" /\ pc' # "main" => results' = load_results(file)]_vars

SupportedType(trace) ==
    trace.type.kind = "str" /\ trace.type.s \in {S_bar, S_line, S_scatter, S_pie}

\* C4: plotly_from_metadata adds exactly one rendered trace for each trace of
\* `data` whose type is "bar", "line", "scatter" or "pie", in the order of
\* `data`, and adds nothing and raises no error for a trace whose type is any
\* other value or is absent (the supported traces and the layout being
\* values plotly accepts).
C4_OneTracePerSupportedType ==
    ( /\ "plotly_from_metadata" \in calls
      /\ plot_spec.data.kind \in {"list", "absent"}
      /\ plot_spec.layout_ok
      /\ \A i \in DOMAIN plot_spec.data.items :
            SupportedType(plot_spec.data.items[i]) => plot_spec.data.items[i].fields_ok )
    => /\ ~fig.raised
       /\ LET supported == SelectSeq(plot_spec.data.items, SupportedType) IN
          /\ Len(fig.traces) = Len(supported)
          /\ \A i \in DOMAIN supported : fig.traces[i].trace = supported[i]

\* the search term matches entry i (0-based) of results
QueryText(e) == IF e.query.kind = "absent" THEN S_UnnamedQuery ELSE e.query.s

Matches(i) == str_contains(lower(search_term), lower(QueryText(results[i + 1])))

\* C5: with an empty search query the filtered indices are 0..N-1 in order;
\* otherwise index i is in the filtered set iff the lower-cased query of
\* entry i ("Unnamed Query" when absent) contains the lower-cased search
\* query, and the indices are ascending.
C5_FilteredIndices ==
    Shown("text_input") =>
        IF search_term = <<>>
        THEN filtered_indices = [k \in 1..Len(results) |-> k - 1]
        ELSE /\ \A i \in 0..(Len(results) - 1) :
                    i \in Range(filtered_indices) <=> Matches(i)
             /\ \A k, l \in DOMAIN filtered_indices :
                    k < l => filtered_indices[k] < filtered_indices[l]

C5_Witness ==
    /\ Shown("text_input")
    /\ search_term = <<"a", "B">>
    /\ filtered_indices # <<>>
    /\ Len(filtered_indices) < Len(results)

\* C6: loading the JSON that the export writes for a loaded list yields the
\* same entries in the same order.
C6_ExportReloadRoundTrip == "reload" \in calls => reloaded = results

C6_Witness ==
    /\ "reload" \in calls
    /\ \E i, j \in DOMAIN results :
          /\ i < j
          /\ results[i] # results[j]
          /\ parse_timestamp(results[i]) = parse_timestamp(results[j])
    /\ \E i \in DOMAIN results : results[i].timestamp.kind = "null"

\* C7: whatever the search query and the selected entry, the data given to
\* the download button is the serialization of the complete list that
\* load_results returns for the file.
C7_DownloadIsFullList ==
    Shown("download_button") =>
        /\ results = load_results(file)
        /\ download = json_dumps(load_results(file))

C7_Witness ==
    /\ Shown("download_button")
    /\ Len(filtered_indices) < Len(results)
    /\ selected_index > 0

\* C8: in every render pass where building the chart of the selected entry
\* fails, the header, the metadata view and the raw-JSON view of that entry
\* are still rendered and the pass ends without an uncaught error.
C8_ChartFailureIsNotFatal ==
    ( /\ pc \in {"done", "crashed"}
      /\ selected_result # EmptyEntry
      /\ plotly_from_metadata(selected_result.plot).raised )
    => /\ pc = "done"
       /\ \A w \in {"header_metrics", "metadata", "json"} :
             \E k \in DOMAIN rendered :
                rendered[k] = W(w, selected_result)

\* C9: detect_chart_type never raises; it returns "Unknown" when `data` is
\* empty or absent and when the first trace lacks a type, and otherwise the
\* capitalized type of the first trace.
C9_DetectChartType ==
    "detect_chart_type" \in calls =>
        /\ ~chart_type.raised
        /\ IF plot_spec.data.kind # "list" \/ plot_spec.data.items = <<>>
           THEN chart_type.label = S_Unknown
           ELSE LET t == plot_spec.data.items[1].type IN
                /\ t.kind = "absent" => chart_type.label = S_Unknown
                /\ t.kind = "str" => chart_type.label = capitalize(t.s)

EntryWidgets == {"subheader", "header_metrics", "plotly_chart", "error", "metadata", "json"}

\* C10: the header and the tabs are rendered only for an entry results[i]
\* whose index i the current search query keeps; when the loaded list is
\* empty or no index is kept, no header, no tabs and no download button are
\* rendered in that pass.
C10_RenderedEntryIsFiltered ==
    /\ \A k \in DOMAIN rendered :
          rendered[k].widget \in EntryWidgets =>
              /\ selected_index \in 0..(Len(results) - 1)
              /\ Matches(selected_index)
              /\ rendered[k].entry = results[selected_index + 1]
    /\ (results = <<>> \/ \A i \in 0..(Len(results) - 1) : ~Matches(i)) =>
          \A k \in DOMAIN rendered :
              rendered[k].widget \notin EntryWidgets \cup {"download_button"}

C10_Witness ==
    /\ Shown("header_metrics")
    /\ Shown("json")
    /\ selected_index = 1
    /\ filtered_indices = <<1>>
    /\ Len(results) = 2

====
